---- MODULE Spec2Model ----
(***************************************************************************)
(* Model of src/main/dashboard_delegate.py: the DashboardDelegateThread    *)
(* worker (run), the fields it shares with the foreground thread           *)
(* (status_line, status_line_color, status_line_stale, commands,           *)
(* wait_for_ready) and the command interpreter                             *)
(* DashboardDelegate.execute_command.                                      *)
(*                                                                         *)
(* Every bytecode-level access to a shared field is one step, so the       *)
(* foreground's steps interleave with the worker's between any two of      *)
(* them.  The GameController, the detector and the enums of                *)
(* arduino_manager are collaborators whose code is not part of the file;   *)
(* their behaviour is a nondeterministic choice over small sets.           *)
(***************************************************************************)
EXTENDS Integers, Sequences, FiniteSets, TLC

\* ------------------------------------------------------------------ bounds
\* Number of commands the foreground enqueues in one behaviour.
MaxEnq == 2

\* ----------------------------------------------------------------- threads
Worker == "worker"
\* The thread that runs the asyncio event loop (main_thread_loop).
MainThread == "main"
\* Every non-worker thread that may wait on wait_for_ready.
Foreground == {MainThread, "aux1", "aux2"}
\* threading.Lock(): the value of an unheld lock.
Unlocked == "unlocked"

\* --------------------------------------------------------- small utilities
IsPrefix(s, t) == Len(s) <= Len(t) /\ SubSeq(t, 1, Len(s)) = s

RECURSIVE IndexOf(_, _, _)
\* list.index(x): the first position of x in seq at or after i, 0 if absent.
IndexOf(seq, x, i) ==
    IF i > Len(seq) THEN 0
    ELSE IF seq[i] = x THEN i
    ELSE IndexOf(seq, x, i + 1)

\* ------------------------------------------------- collaborators' constants
\* game_controller.State: the members GAME_STATE_STATUSLINE_COLORS names.
States == {"STARTING", "READY", "HUMAN_TURN", "COMPUTER_TURN", "ERROR"}

\* GAME_STATE_STATUSLINE_COLORS.get(state, 'ansiblack bg:ansiwhite')
GAME_STATE_STATUSLINE_COLORS(state) ==
    CASE state = "STARTING"      -> "ansiblack bg:ansigray"
      [] state = "READY"         -> "bg:ansigreen"
      [] state = "HUMAN_TURN"    -> "bg:#FF69B4"
      [] state = "COMPUTER_TURN" -> "ansiblack bg:#66AAFF"
      [] state = "ERROR"         -> "bg:ansired"
      [] OTHER                   -> "ansiblack bg:ansiwhite"

\* chess.SQUARE_NAMES
SQUARE_NAMES == <<
    "a1", "b1", "c1", "d1", "e1", "f1", "g1", "h1",
    "a2", "b2", "c2", "d2", "e2", "f2", "g2", "h2",
    "a3", "b3", "c3", "d3", "e3", "f3", "g3", "h3",
    "a4", "b4", "c4", "d4", "e4", "f4", "g4", "h4",
    "a5", "b5", "c5", "d5", "e5", "f5", "g5", "h5",
    "a6", "b6", "c6", "d6", "e6", "f6", "g6", "h6",
    "a7", "b7", "c7", "d7", "e7", "f7", "g7", "h7",
    "a8", "b8", "c8", "d8", "e8", "f8", "g8", "h8" >>

\* Mutant of parse_square: an unknown name yields square 0 instead of
\* raising.
parse_square_default(name) ==
    IF IndexOf(SQUARE_NAMES, name, 1) = 0 THEN 0
    ELSE IndexOf(SQUARE_NAMES, name, 1) - 1

\* chess.parse_square(name) is SQUARE_NAMES.index(name): a 0-based square, or
\* -1 here where python raises ValueError.
parse_square(name) == IndexOf(SQUARE_NAMES, name, 1) - 1

\* chess.square_name(square)
square_name(square) == SQUARE_NAMES[square + 1]

\* arduino_manager.Button: the names Button[...] resolves (any other name
\* raises KeyError).
ButtonNames == {"COMPUTER", "PLAYER"}

\* arduino_manager.LEDPallete: the names LEDPallete[...] resolves.
LEDPalleteNames == {"RAINBOW", "FAIL"}

\* The controller as the bridge sees it right after GameController().
NewGame ==
    [ state                |-> "STARTING",
      gantry_pos           |-> "home",
      electromagnet_enabled |-> FALSE,
      button_light         |-> <<>>,
      led_pallete          |-> "none",
      autoplay             |-> FALSE ]

\* The value of `game` before the worker has constructed the controller.
NoGame == [ state |-> "none" ]

\* ------------------------------------------------------ string conversions
\* A command line is the sequence of the pieces between its single spaces
\* (what str.split(' ') yields): "move  e4" is <<"move", "", "e4">> and
\* " MAGNET ON" is <<"", "MAGNET", "ON">>.

\* str.lower() on one piece.
lower(tok) ==
    CASE tok = "MAGNET" -> "magnet"
      [] tok = "ON"     -> "on"
      [] tok = "Exit"   -> "exit"
      [] OTHER          -> tok

\* str.upper() on one piece.
upper(tok) ==
    CASE tok = "king"     -> "KING"
      [] tok = "computer" -> "COMPUTER"
      [] tok = "player"   -> "PLAYER"
      [] tok = "nosuch"   -> "NOSUCH"
      [] tok = "rainbow"  -> "RAINBOW"
      [] tok = "fail"     -> "FAIL"
      [] tok = "on"       -> "ON"
      [] tok = "off"      -> "OFF"
      [] OTHER            -> tok

RECURSIVE lstrip(_)
lstrip(toks) ==
    IF Len(toks) > 1 /\ Head(toks) = "" THEN lstrip(Tail(toks)) ELSE toks

RECURSIVE rstrip(_)
rstrip(toks) ==
    IF Len(toks) > 1 /\ toks[Len(toks)] = ""
    THEN rstrip(SubSeq(toks, 1, Len(toks) - 1))
    ELSE toks

\* str.strip(): the spaces at both ends go, so the empty pieces there go; the
\* empty string splits into one empty piece.
strip(toks) == rstrip(lstrip(toks))

\* command.strip().lower().split(' ')
split_command(command) ==
    LET toks == strip(command) IN [i \in 1..Len(toks) |-> lower(toks[i])]

\* ------------------------------------------------------ Command Interpreter
\* What one call of execute_command does: how it ends ("return", "raise" with
\* the exception that leaves the call, "exit" for SystemExit), the controller
\* afterwards and, in order, the prints, the show_image calls and the
\* controller setters it made.
Result(outcome, error, g, effects) ==
    [ outcome |-> outcome, error |-> error, game |-> g, effects |-> effects ]

print_to_dashboard(msg) == <<"print", msg>>
ShowImage(img, title) == <<"show_image", img, title>>
Call(setter, arg) == <<"call", setter, arg>>

OnOff(enabled) == IF enabled THEN "ON" ELSE "OFF"

\* The outcomes game.get_image can have.
Outcomes == {"ok", "raise"}

\* The outcomes the detector can have in the second try block: both calls
\* return, detect_piece_positions raises, or generate_board raises after
\* detect_piece_positions has returned (and has shown its annotated image
\* through the show callback it was given).
DetectOutcomes == {"ok", "raise", "raise_in_generate_board"}

\* Lines 94-105 of execute_command: what camshow does once it has an image.
\* The effects also list the calls of the detector, each with its outcome.
recognize(detect) ==
    << print_to_dashboard(<<"Recognizing board...">>) >>
    \o (CASE detect = "raise" ->
               << Call("detect_piece_positions", "raise"),
                  ShowImage("raw", "Failed to Detect Piece Positions:"),
                  print_to_dashboard(<<"Failed to detect piece positions:", "err">>) >>
          [] detect = "raise_in_generate_board" ->
               << Call("detect_piece_positions", "ok"),
                  ShowImage("annotated", "detector"),
                  Call("generate_board", "raise"),
                  ShowImage("raw", "Failed to Detect Piece Positions:"),
                  print_to_dashboard(<<"Failed to detect piece positions:", "err">>) >>
          [] OTHER ->
               << Call("detect_piece_positions", "ok"),
                  ShowImage("annotated", "detector"),
                  Call("generate_board", "ok"),
                  print_to_dashboard(<<"Board (computer perspective):">>),
                  print_to_dashboard(<<"board", "flip_horizontal", "flip_vertical">>) >>)

\* Mutant of camshow: the first except block lacks its return, so the
\* command goes on to the detection.
camshow_no_return(g, fetch, detect) ==
    Result("return", "none", g,
           << print_to_dashboard(<<"Fetching image...">>),
              Call("get_image", fetch) >>
           \o (IF fetch = "raise"
               THEN << print_to_dashboard(<<"Failed to load image:", "err">>) >>
               ELSE <<>>)
           \o recognize(detect))

\* The camshow branch of execute_command (lines 87-105).  Its effects also
\* list the call of game.get_image with its outcome.
camshow(g, fetch, detect) ==
    IF fetch = "raise"
    THEN Result("return", "none", g,
                << print_to_dashboard(<<"Fetching image...">>),
                   Call("get_image", "raise"),
                   print_to_dashboard(<<"Failed to load image:", "err">>) >>)
    ELSE Result("return", "none", g,
                << print_to_dashboard(<<"Fetching image...">>),
                   Call("get_image", "ok") >>
                \o recognize(detect))

\* DashboardDelegate.execute_command(command), with the outcome of
\* game.get_image (fetch) and of the detector (detect) as inputs.
execute_command(command, g, fetch, detect) ==
    LET toks == split_command(command)
        cmd  == Head(toks)
        args == Tail(toks)
    IN  CASE cmd = "move" ->
               IF Len(args) < 1 THEN Result("raise", "IndexError", g, <<>>)
               ELSE LET square == parse_square(args[1]) IN
                    IF square < 0 THEN Result("raise", "ValueError", g, <<>>)
                    ELSE Result("return", "none",
                                [g EXCEPT !.gantry_pos = square_name(square)],
                                << print_to_dashboard(<<"Moving to square:", square_name(square)>>),
                                   Call("move_to_square", square) >>)
          [] cmd = "magnet" ->
               IF Len(args) < 1 THEN Result("raise", "IndexError", g, <<>>)
               ELSE LET enabled == (args[1] = "on") IN
                    Result("return", "none",
                           [g EXCEPT !.electromagnet_enabled = (args[1] = "on")],
                           << print_to_dashboard(<<"Turning magnet", OnOff(enabled)>>),
                              Call("set_electromagnet", args[1] = "on") >>)
          [] cmd = "bled" ->
               IF Len(args) < 2 THEN Result("raise", "IndexError", g, <<>>)
               ELSE LET enabled == (args[2] = "on")
                        button  == upper(args[1])
                    IN  IF button \notin ButtonNames
                        THEN Result("raise", "KeyError", g, <<>>)
                        ELSE Result("return", "none",
                                    [g EXCEPT !.button_light = <<button, enabled>>],
                                    << print_to_dashboard(<<"Turning button light", button,
                                               OnOff(enabled)>>),
                                       Call("set_button_light", <<button, enabled>>) >>)
          [] cmd = "leds" ->
               IF Len(args) < 1 THEN Result("raise", "IndexError", g, <<>>)
               ELSE LET pallete == upper(args[1]) IN
                    IF pallete \notin LEDPalleteNames
                    THEN Result("raise", "KeyError", g, <<>>)
                    ELSE Result("return", "none",
                                [g EXCEPT !.led_pallete = pallete],
                                << print_to_dashboard(<<"Setting LEDs to Pallete:", pallete>>),
                                   Call("set_led_pallete", pallete) >>)
          [] cmd = "autoplay" ->
               IF Len(args) < 1 THEN Result("raise", "IndexError", g, <<>>)
               ELSE Result("return", "none",
                           [g EXCEPT !.autoplay = (args[1] = "on")],
                           << Call("set_autoplay", args[1] = "on") >>)
          [] cmd = "camshow" -> camshow(g, fetch, detect)
          [] cmd = "exit" -> Result("exit", "SystemExit", g, <<>>)
          [] OTHER ->
               Result("return", "none", g, << print_to_dashboard(<<"Unknown Command:", command>>) >>)

\* DashboardDelegate.make_statusline, after its arduino.update(): the
\* (color, text) pair built from the controller.
make_statusline(g) ==
    << GAME_STATE_STATUSLINE_COLORS(g.state),
       IF g.state = "STARTING"
       THEN <<"Starting...">>
       ELSE << "State:", g.state, "/",
               "Gantry:", g.gantry_pos, "/",
               "Magnet:", OnOff(g.electromagnet_enabled) >> >>

\* ------------------------------------------------------------------- inputs
\* The command lines the foreground submits: a well-formed one written with
\* padding and capitals, a malformed one, one that posts an image and the
\* exit command.
Commands ==
    { <<"", "MAGNET", "ON">>,
      <<"move">>,
      <<"camshow">>,
      <<"exit">> }

\* The command lines given to the interpreter on its own: every command
\* word, with a valid argument, an invalid one and a missing one.
AllCommands ==
    { <<"move", "e4">>, <<"move", "zz">>, <<"move", "", "e4">>, <<"move">>,
      <<"", "MAGNET", "ON">>, <<"magnet", "off">>,
      <<"bled", "computer", "on">>, <<"bled", "king", "on">>,
      <<"bled", "player">>,
      <<"leds", "rainbow">>, <<"leds", "nosuch">>,
      <<"autoplay", "on">>,
      <<"camshow">>, <<"Exit">>, <<"bogus">> }

\* The controllers the interpreter is given: any state the hardware polls
\* lead to, the magnet on or off, the gantry at home or on a square.
Controllers ==
    { [NewGame EXCEPT !.state = s, !.electromagnet_enabled = m,
                      !.gantry_pos = p] :
        s \in {"STARTING", "READY", "ERROR"}, m \in BOOLEAN,
        p \in {"home", "a1"} }

\* ---------------------------------------------------------------- the state
VARIABLES
    \* DashboardDelegateThread fields shared by the two threads
    status_line, status_line_color, status_line_stale,
    commands, wait_for_ready,
    \* the asyncio loop's queue of call_soon_threadsafe callbacks and what the
    \* foreground has displayed from it
    callbacks, displayed,
    \* the worker: its position in run(), its locals, its controller and the
    \* effects of its latest execute_command call
    pc, command, snapshot, game, effects,
    \* the foreground threads: position, and what the event-loop thread has
    \* read for the rendering in progress
    fpc, seen_color, seen_text,
    \* history: what was enqueued, what was handed to execute_command, which
    \* callers' waits have returned, whether the first hardware sync is
    \* done, the last snapshot whose publication completed
    enqueued, executed, awaited, synced, published,
    \* history of reads against recomputations:
    \*   read_since_publish  a read() happened after the last completed publish
    \*   comp_after_read     the latest make_statusline() call started after
    \*                       the latest read() (vacuously so before any read)
    \*   text_after_read     the cached text comes from a make_statusline()
    \*                       call that started after the latest read()
    \*   read_was_fresh      the latest read() returned a text computed by a
    \*                       call that started after the read() before it
    read_since_publish, comp_after_read, text_after_read, read_was_fresh,
    \* the hardware polls made so far in the current iteration of the
    \* worker's loop, zero outside it
    polls

vars ==
    << status_line, status_line_color, status_line_stale, commands,
       wait_for_ready, callbacks, displayed, pc, command, snapshot, game,
       effects, fpc, seen_color, seen_text, enqueued, executed, awaited,
       synced, published, read_since_publish, comp_after_read,
       text_after_read, read_was_fresh, polls >>

shared   == << status_line, status_line_color, status_line_stale, commands,
               wait_for_ready >>
cache    == << status_line, status_line_color, status_line_stale >>
loop     == << callbacks, displayed >>
worker   == << pc, command, snapshot, game, effects >>
fground  == << fpc, seen_color, seen_text >>
queuehis == << enqueued, executed >>
gatehis  == << awaited, synced >>
readhis  == << read_since_publish, comp_after_read, text_after_read,
               read_was_fresh >>

\* The class attributes status_line_color and status_line (lines 120-121).
InitialSnapshot == << "bg:ansigray", <<"Loading...">> >>

Init ==
    /\ status_line_color = InitialSnapshot[1]
    /\ status_line = InitialSnapshot[2]
    /\ status_line_stale = TRUE
    /\ commands = <<>>
    /\ wait_for_ready = Unlocked
    /\ callbacks = <<>>
    /\ displayed = <<>>
    /\ pc = "start"
    /\ command = <<>>
    /\ snapshot = InitialSnapshot
    /\ game = NoGame
    /\ effects = <<>>
    /\ fpc = [t \in Foreground |-> "idle"]
    /\ seen_color = "none"
    /\ seen_text = <<>>
    /\ enqueued = <<>>
    /\ executed = <<>>
    /\ awaited = [t \in Foreground |-> FALSE]
    /\ synced = FALSE
    /\ published = InitialSnapshot
    /\ read_since_publish = FALSE
    /\ comp_after_read = TRUE
    /\ text_after_read = TRUE
    /\ read_was_fresh = TRUE
    /\ polls = 0

\* ------------------------------------------------------ primitive operations
\* Mutant of popleft: deque.pop(), which takes from the right end.
pop_right(q) == [ item |-> q[Len(q)], rest |-> SubSeq(q, 1, Len(q) - 1) ]

\* deque.popleft(): the item handed out and the deque that is left.
popleft(q) == [ item |-> Head(q), rest |-> Tail(q) ]

\* deque.append(x)
append(q, x) == Append(q, x)

\* Lock.release() by a foreground caller.
release(lock) == Unlocked

\* Mutant of exit_with: the lock is acquired without a with block and never
\* released.
exit_with_held(lock) == lock

\* The exit of `with self.wait_for_ready:` in run(), normal or by exception.
exit_with(lock) == Unlocked

\* What arduino.update() can do to the controller: dispatching the hardware's
\* events moves the game's state machine on, or leaves it.
arduino_update(g) ==
    { [g EXCEPT !.state = s] : s \in
        CASE g.state = "STARTING" -> {"STARTING", "READY"}
          [] g.state = "READY"    -> {"READY", "ERROR"}
          [] OTHER                -> {g.state} }

\* The show_image calls among the effects of a command, in order: each is a
\* callback DashboardDelegateThread.show_image hands to call_soon_threadsafe.
RECURSIVE posted(_)
posted(effs) ==
    IF effs = <<>> THEN <<>>
    ELSE IF Head(effs)[1] = "show_image"
         THEN <<Head(effs)>> \o posted(Tail(effs))
         ELSE posted(Tail(effs))

\* ------------------------------------------------- the foreground's actions
\* Mutant of enqueue: the event-loop thread runs the command on the
\* controller itself instead of queueing it for the worker.
enqueue_direct(c) ==
    /\ fpc[MainThread] = "idle"
    /\ Len(enqueued) < MaxEnq
    /\ game # NoGame
    /\ game' = execute_command(c, game, "ok", "ok").game
    /\ enqueued' = Append(enqueued, c)
    /\ UNCHANGED << cache, commands, wait_for_ready, loop, pc, command,
                    snapshot, effects, fground, executed, gatehis, published,
                    readhis, polls >>

\* self.commands.append(line), from the event-loop thread.
enqueue(c) ==
    /\ fpc[MainThread] = "idle"
    /\ Len(enqueued) < MaxEnq
    /\ commands' = append(commands, c)
    /\ enqueued' = Append(enqueued, c)
    /\ UNCHANGED << cache, wait_for_ready, loop, worker, fground, executed,
                    gatehis, published, readhis, polls >>

\* get_status_line(): marks the cache stale and returns the text.
get_status_line ==
    /\ fpc[MainThread] \in {"idle", "color"}
    /\ status_line_stale' = TRUE
    /\ seen_text' = status_line
    /\ fpc' = [fpc EXCEPT ![MainThread] =
                  IF fpc[MainThread] = "idle" THEN "text" ELSE "both"]
    /\ read_since_publish' = TRUE
    /\ read_was_fresh' = text_after_read
    /\ comp_after_read' = FALSE
    /\ text_after_read' = FALSE
    /\ UNCHANGED << status_line, status_line_color, commands, wait_for_ready,
                    loop, worker, seen_color, queuehis, gatehis, published,
                    polls >>

\* Mutant of get_status_line_color: "not stale" written as an assignment.
get_status_line_color_clearing ==
    /\ fpc[MainThread] \in {"idle", "text"}
    /\ seen_color' = status_line_color
    /\ status_line_stale' = FALSE
    /\ fpc' = [fpc EXCEPT ![MainThread] =
                  IF fpc[MainThread] = "idle" THEN "color" ELSE "both"]
    /\ UNCHANGED << status_line, status_line_color, commands, wait_for_ready,
                    loop, worker, seen_text, queuehis, gatehis, published,
                    readhis, polls >>

\* get_status_line_color(): returns the color, marks nothing.
get_status_line_color ==
    /\ fpc[MainThread] \in {"idle", "text"}
    /\ seen_color' = status_line_color
    /\ fpc' = [fpc EXCEPT ![MainThread] =
                  IF fpc[MainThread] = "idle" THEN "color" ELSE "both"]
    /\ UNCHANGED << shared, loop, worker, seen_text, queuehis, gatehis,
                    published, readhis, polls >>

\* The foreground draws what it has read and drops it.
render ==
    /\ fpc[MainThread] \in {"color", "text", "both"}
    /\ fpc' = [fpc EXCEPT ![MainThread] = "idle"]
    /\ seen_color' = "none"
    /\ seen_text' = <<>>
    /\ UNCHANGED << shared, loop, worker, queuehis, gatehis, published,
                    readhis, polls >>

\* The event loop runs the next call_soon_threadsafe callback: the lambda of
\* show_image displays its image.
run_callback ==
    /\ fpc[MainThread] = "idle"
    /\ callbacks # <<>>
    /\ displayed' = Append(displayed, Head(callbacks))
    /\ callbacks' = Tail(callbacks)
    /\ UNCHANGED << shared, worker, fground, queuehis, gatehis, published,
                    readhis, polls >>

\* A caller starts to wait for readiness: wait_for_ready.acquire() is called.
\* Each caller waits once, during its startup.
awaitReady_call(t) ==
    /\ fpc[t] = "idle"
    /\ ~awaited[t]
    /\ fpc' = [fpc EXCEPT ![t] = "waiting"]
    /\ UNCHANGED << shared, loop, worker, seen_color, seen_text, queuehis,
                    gatehis, published, readhis, polls >>

\* wait_for_ready.acquire() returns: the lock was free and is now the caller's.
awaitReady_acquire(t) ==
    /\ fpc[t] = "waiting"
    /\ wait_for_ready = Unlocked
    /\ wait_for_ready' = t
    /\ fpc' = [fpc EXCEPT ![t] = "acquired"]
    /\ UNCHANGED << cache, commands, loop, worker, seen_color, seen_text,
                    queuehis, gatehis, published, readhis, polls >>

\* The caller gives the lock back and goes on: its wait has returned.
awaitReady_release(t) ==
    /\ fpc[t] = "acquired"
    /\ wait_for_ready' = release(wait_for_ready)
    /\ fpc' = [fpc EXCEPT ![t] = "idle"]
    /\ awaited' = [awaited EXCEPT ![t] = TRUE]
    /\ UNCHANGED << cache, commands, loop, worker, seen_color, seen_text,
                    queuehis, synced, published, readhis, polls >>

\* ------------------------------------------------------ the worker's actions
\* run() enters `with self.wait_for_ready:`: it blocks while the lock is held.
run_enter_with ==
    /\ pc = "start"
    /\ wait_for_ready = Unlocked
    /\ wait_for_ready' = Worker
    /\ pc' = "construct"
    /\ UNCHANGED << cache, commands, loop, command, snapshot, game, effects,
                    fground, queuehis, gatehis, published, readhis, polls >>

\* DashboardDelegate(GameController(), ...): the constructor returns a
\* controller, or raises and the exception leaves the with block and run().
run_construct ==
    /\ pc = "construct"
    /\ \E outcome \in Outcomes :
         IF outcome = "ok"
         THEN /\ game' = NewGame
              /\ pc' = "sync"
              /\ UNCHANGED wait_for_ready
         ELSE /\ wait_for_ready' = exit_with(wait_for_ready)
              /\ pc' = "init_failed"
              /\ UNCHANGED game
    /\ UNCHANGED << cache, commands, loop, command, snapshot, effects, fground,
                    queuehis, gatehis, published, readhis, polls >>

\* delegate.game.arduino.update()  # Initialize data
run_sync ==
    /\ pc = "sync"
    /\ game' \in arduino_update(game)
    /\ synced' = TRUE
    /\ pc' = "release"
    /\ UNCHANGED << shared, loop, command, snapshot, effects, fground, queuehis,
                    awaited, published, readhis, polls >>

\* The with block ends: the lock is released.
run_exit_with ==
    /\ pc = "release"
    /\ wait_for_ready' = exit_with(wait_for_ready)
    /\ pc' = "check"
    /\ UNCHANGED << cache, commands, loop, command, snapshot, game, effects,
                    fground, queuehis, gatehis, published, readhis, polls >>

\* if self.status_line_stale:
run_check ==
    /\ pc = "check"
    /\ pc' = (IF status_line_stale THEN "make_statusline" ELSE "update")
    /\ UNCHANGED << shared, loop, command, snapshot, game, effects, fground,
                    queuehis, gatehis, published, readhis, polls >>

\* make_statusline() is called and does its self.game.arduino.update(): a
\* recomputation has started.
run_make_statusline ==
    /\ pc = "make_statusline"
    /\ game' \in arduino_update(game)
    /\ polls' = polls + 1
    /\ pc' = "build"
    /\ comp_after_read' = TRUE
    /\ UNCHANGED << shared, loop, command, snapshot, effects, fground, queuehis,
                    gatehis, published, read_since_publish, text_after_read,
                    read_was_fresh >>

\* make_statusline() reads the controller and returns the (color, text) tuple.
run_build ==
    /\ pc = "build"
    /\ snapshot' = make_statusline(game)
    /\ pc' = "store_color"
    /\ UNCHANGED << shared, loop, command, game, effects, fground, queuehis,
                    gatehis, published, readhis, polls >>

\* self.status_line_color, self.status_line = <tuple>: the first store.
run_store_color ==
    /\ pc = "store_color"
    /\ status_line_color' = snapshot[1]
    /\ pc' = "store_text"
    /\ UNCHANGED << status_line, status_line_stale, commands, wait_for_ready,
                    loop, command, snapshot, game, effects, fground, queuehis,
                    gatehis, published, readhis, polls >>

\* Mutant of run_store_text: only the color of the tuple is stored.
run_store_text_skipped ==
    /\ pc = "store_text"
    /\ pc' = "update"
    /\ published' = snapshot
    /\ read_since_publish' = FALSE
    /\ text_after_read' = comp_after_read
    /\ UNCHANGED << cache, commands, wait_for_ready, loop, command, snapshot,
                    game, effects, fground, queuehis, gatehis, comp_after_read,
                    read_was_fresh, polls >>

\* Mutant of run_store_text: the flag is cleared once the snapshot is stored,
\* whatever was read while it was being computed.
run_store_text_clearing ==
    /\ pc = "store_text"
    /\ status_line' = snapshot[2]
    /\ status_line_stale' = FALSE
    /\ pc' = "update"
    /\ published' = snapshot
    /\ read_since_publish' = FALSE
    /\ text_after_read' = comp_after_read
    /\ UNCHANGED << status_line_color, commands, wait_for_ready, loop, command,
                    snapshot, game, effects, fground, queuehis, gatehis,
                    comp_after_read, read_was_fresh, polls >>

\* The second store; the snapshot is now published.
run_store_text ==
    /\ pc = "store_text"
    /\ status_line' = snapshot[2]
    /\ pc' = "update"
    /\ published' = snapshot
    /\ read_since_publish' = FALSE
    /\ text_after_read' = comp_after_read
    /\ UNCHANGED << status_line_color, status_line_stale, commands,
                    wait_for_ready, loop, command, snapshot, game, effects,
                    fground, queuehis, gatehis, comp_after_read,
                    read_was_fresh, polls >>

\* Mutant of run_update: the loop goes to the drain without its own poll.
run_update_skipped ==
    /\ pc = "update"
    /\ pc' = "drain"
    /\ UNCHANGED << shared, loop, command, snapshot, game, effects, fground,
                    queuehis, gatehis, published, readhis, polls >>

\* delegate.game.arduino.update(), the loop's own hardware poll.
run_update ==
    /\ pc = "update"
    /\ game' \in arduino_update(game)
    /\ polls' = polls + 1
    /\ pc' = "drain"
    /\ UNCHANGED << shared, loop, command, snapshot, effects, fground, queuehis,
                    gatehis, published, readhis >>

\* Mutant of run_drain: the while test written with >= instead of >.
run_drain_geq ==
    /\ pc = "drain"
    /\ pc' = (IF Len(commands) >= 0 THEN "popleft" ELSE "check")
    /\ polls' = (IF Len(commands) >= 0 THEN polls ELSE 0)
    /\ UNCHANGED << shared, loop, command, snapshot, game, effects, fground,
                    queuehis, gatehis, published, readhis >>

\* while len(self.commands) > 0:
run_drain ==
    /\ pc = "drain"
    /\ pc' = (IF Len(commands) > 0 THEN "popleft" ELSE "check")
    /\ polls' = (IF Len(commands) > 0 THEN polls ELSE 0)
    /\ UNCHANGED << shared, loop, command, snapshot, game, effects, fground,
                    queuehis, gatehis, published, readhis >>

\* self.commands.popleft(): IndexError on an empty deque leaves run().
run_popleft ==
    /\ pc = "popleft"
    /\ IF commands = <<>>
       THEN /\ pc' = "crashed"
            /\ UNCHANGED << commands, command, polls >>
       ELSE /\ command' = popleft(commands).item
            /\ commands' = popleft(commands).rest
            /\ pc' = "execute"
    /\ UNCHANGED << cache, wait_for_ready, loop, snapshot, game, effects,
                    fground, queuehis, gatehis, published, readhis, polls >>

\* delegate.execute_command(<the popped command>): a return goes back to the
\* while test; an exception is caught nowhere in run() and ends the thread;
\* SystemExit, raised by exit(0), ends the thread as well.
run_execute ==
    /\ pc = "execute"
    /\ \E fetch \in Outcomes, detect \in DetectOutcomes :
         LET r == execute_command(command, game, fetch, detect) IN
         /\ game' = r.game
         /\ effects' = r.effects
         /\ callbacks' = callbacks \o posted(r.effects)
         /\ pc' = CASE r.outcome = "return" -> "drain"
                    [] r.outcome = "raise"  -> "crashed"
                    [] r.outcome = "exit"   -> "exited"
    /\ executed' = Append(executed, command)
    /\ UNCHANGED << shared, displayed, command, snapshot, fground, enqueued,
                    gatehis, published, readhis, polls >>

\* ----------------------------------------------------------- specifications
WorkerNext ==
    \/ run_enter_with
    \/ run_construct
    \/ run_sync
    \/ run_exit_with
    \/ run_check
    \/ run_make_statusline
    \/ run_build
    \/ run_store_color
    \/ run_store_text
    \/ run_update
    \/ run_drain
    \/ run_popleft
    \/ run_execute

\* The event-loop thread: it submits commands, renders the status line, runs
\* the posted callbacks and waits for readiness.
ForegroundNext ==
    \/ \E c \in Commands : enqueue(c)
    \/ get_status_line
    \/ get_status_line_color
    \/ render
    \/ run_callback
    \/ awaitReady_call(MainThread)
    \/ awaitReady_acquire(MainThread)
    \/ awaitReady_release(MainThread)

Next == WorkerNext \/ ForegroundNext

Spec == Init /\ [][Next]_vars

\* The worker thread is scheduled whenever it can take a step, and a caller
\* blocked in acquire() gets the lock once it stays free.
FairSpec ==
    /\ Spec
    /\ WF_vars(WorkerNext)
    /\ WF_vars(awaitReady_acquire(MainThread))
    /\ WF_vars(awaitReady_release(MainThread))

\* The readiness protocol on its own: the worker from thread start to the end
\* of its with block, against any of the callers waiting.  The steps of run()
\* after the with block leave wait_for_ready alone.
InitNext ==
    \/ run_enter_with
    \/ run_construct
    \/ run_sync
    \/ run_exit_with

GateNext ==
    \/ InitNext
    \/ \E t \in Foreground : awaitReady_call(t)
    \/ \E t \in Foreground : awaitReady_acquire(t)
    \/ \E t \in Foreground : awaitReady_release(t)

GateSpec ==
    /\ Init
    /\ [][GateNext]_vars
    /\ WF_vars(InitNext)
    /\ \A t \in Foreground : WF_vars(awaitReady_acquire(t))
    /\ \A t \in Foreground : WF_vars(awaitReady_release(t))

\* The display cache on its own: the worker's loop with no command ever
\* queued, against the event-loop thread reading the status line.
CacheWorkerNext ==
    \/ InitNext
    \/ run_check
    \/ run_make_statusline
    \/ run_build
    \/ run_store_color
    \/ run_store_text
    \/ run_update
    \/ run_drain

CacheNext ==
    \/ CacheWorkerNext
    \/ get_status_line
    \/ get_status_line_color
    \/ render

\* The worker thread is scheduled whenever it can take a step; nothing is
\* asked of the event-loop thread.
CacheSpec ==
    /\ Init
    /\ [][CacheNext]_vars
    /\ WF_vars(CacheWorkerNext)

\* The Command Interpreter on its own: the worker is about to call
\* execute_command with a command it has popped, on a controller that is up.
InterpInit ==
    /\ status_line_color = InitialSnapshot[1]
    /\ status_line = InitialSnapshot[2]
    /\ status_line_stale = TRUE
    /\ commands = <<>>
    /\ wait_for_ready = Unlocked
    /\ callbacks = <<>>
    /\ displayed = <<>>
    /\ pc = "execute"
    /\ command \in AllCommands
    /\ snapshot = InitialSnapshot
    /\ game \in Controllers
    /\ effects = <<>>
    /\ fpc = [t \in Foreground |-> "idle"]
    /\ seen_color = "none"
    /\ seen_text = <<>>
    /\ enqueued = <<command>>
    /\ executed = <<>>
    /\ awaited = [t \in Foreground |-> FALSE]
    /\ synced = TRUE
    /\ published = InitialSnapshot
    /\ read_since_publish = FALSE
    /\ comp_after_read = TRUE
    /\ text_after_read = TRUE
    /\ read_was_fresh = TRUE
    /\ polls \in {1, 2}

InterpSpec == InterpInit /\ [][run_execute]_vars

\* ------------------------------------------------------------------- claims
\* The command the worker has popped and not yet handed to execute_command.
InHand == IF pc = "execute" THEN <<command>> ELSE <<>>

\* C1: under every interleaving of enqueues with the drain loop, the commands
\* handed to execute_command are, in order, a prefix of the commands
\* enqueued; none is handed over twice, none is skipped: what was handed
\* over, then what is in hand, then what is queued is what was enqueued.
C1_HandedInSubmissionOrder ==
    /\ IsPrefix(executed, enqueued)
    /\ executed \o InHand \o commands = enqueued

\* Two different commands were enqueued and both have been handed over.
C1_Witness ==
    /\ Len(executed) = 2
    /\ executed[1] # executed[2]

\* C2: no single command stops the worker: whatever the command,
\* execute_command returns to the worker loop and the loop goes on.
C2_NoCommandStopsWorker == pc # "crashed"

\* C3: every enqueued command is eventually passed to execute_command, given
\* a fairly scheduled worker whose hardware polls return.  Stated for a
\* worker that started and was not told to exit, so that neither a failed
\* start nor the exit command counts against it.
C3_EveryCommandExecuted ==
    \A n \in 1..MaxEnq :
        (Len(enqueued) >= n) ~>
            (Len(executed) >= n \/ pc \in {"init_failed", "exited"})

\* C4: no caller's wait on wait_for_ready returns before the worker has
\* constructed the controller and completed the first hardware sync.  Stated
\* for a worker whose construction did not fail.
C4_NoReturnBeforeReady ==
    \A t \in Foreground :
        (fpc[t] = "acquired" /\ pc # "init_failed") => synced

\* Whether a color and a text belong to one snapshot: the initial pair, or
\* the pair make_statusline builds for one state of the controller.
OneSnapshot(color, text) ==
    \/ <<color, text>> = InitialSnapshot
    \/ IF Len(text) = 1
       THEN text = <<"Starting...">> /\ color = GAME_STATE_STATUSLINE_COLORS("STARTING")
       ELSE text[2] # "STARTING" /\ color = GAME_STATE_STATUSLINE_COLORS(text[2])

\* C5: the color and the text the foreground has read for one rendering come
\* from the same snapshot.
C5_NoTornSnapshot ==
    fpc[MainThread] = "both" => OneSnapshot(seen_color, seen_text)

\* A read of the text, of the color: the event-loop thread's step through
\* get_status_line, through get_status_line_color.
ReadStep ==
    /\ fpc[MainThread] \in {"idle", "color"}
    /\ fpc'[MainThread] \in {"text", "both"}
ReadColorStep ==
    /\ fpc[MainThread] \in {"idle", "text"}
    /\ fpc'[MainThread] \in {"color", "both"}

\* Whether the worker is between the two stores of a publication.
Publishing == pc = "store_text"

\* C6: from the completion of a publication of S to the start of the next,
\* the cache holds S and every read returns S's text, S's color; before the
\* first publication S is the initial 'Loading...' / 'bg:ansigray'.
C6_ReadsReturnPublished ==
    /\ [](~Publishing => <<status_line_color, status_line>> = published)
    /\ [][ /\ (ReadStep /\ ~Publishing) => seen_text' = published[2]
           /\ (ReadColorStep /\ ~Publishing) => seen_color' = published[1] ]_vars

\* A rendering read both parts of a snapshot the worker published.
C6_Witness ==
    /\ fpc[MainThread] = "both"
    /\ published # InitialSnapshot
    /\ <<seen_color, seen_text>> = published

\* C7: once the worker has stored a recomputed snapshot the staleness flag
\* is false, and it stays false until the next read().
C7_PublishClearsStaleness ==
    (published # InitialSnapshot /\ ~read_since_publish) => ~status_line_stale

\* C8: read() sets the staleness flag and changes nothing else of what the
\* threads share; readColorOnly() changes none of it, the flag included.
C8_ReadFrames ==
    [][ /\ ReadStep =>
             /\ status_line_stale' = TRUE
             /\ UNCHANGED << status_line, status_line_color, commands,
                             wait_for_ready, callbacks, displayed, game, polls >>
        /\ ReadColorStep =>
             UNCHANGED << status_line_stale, status_line, status_line_color,
                          commands, wait_for_ready, callbacks, displayed, game,
                          polls >>
      ]_vars

\* The color alone was read from a published snapshot.
C8_Witness ==
    /\ fpc[MainThread] = "color"
    /\ published # InitialSnapshot
    /\ seen_color = published[1]

\* C9 as claimed: of two consecutive read() calls, the second returns a
\* snapshot whose computation started after the first.  Stated for reads
\* that return a snapshot the worker computed, not the initial text.
C9_SecondReadIsFresh ==
    (fpc[MainThread] \in {"text", "both"} /\ seen_text # InitialSnapshot[2])
        => read_was_fresh

\* C9 as amended: from a read() on, until the worker starts a recomputation,
\* the staleness flag is true and the worker's staleness check leads into a
\* recomputation; a text stored from a recomputation that started after the
\* read is what the next read returns.
C9_StaleUntilRecompute ==
    /\ [](~comp_after_read => status_line_stale)
    /\ [][ /\ (pc = "check" /\ ~comp_after_read /\ pc' # pc) =>
                 pc' = "make_statusline"
           /\ (ReadStep /\ text_after_read) =>
                 (read_was_fresh' /\ seen_text' = published[2]) ]_vars

\* A read happened after a publication, and the worker is at its staleness
\* check with no recomputation started since.
C9_Witness ==
    /\ pc = "check"
    /\ ~comp_after_read
    /\ published # InitialSnapshot

C11_GateOneShot ==
    /\ []((wait_for_ready = Unlocked /\ pc # "init_failed") => synced)
    /\ [][wait_for_ready = Unlocked => wait_for_ready' # Worker]_vars

\* C12: when the construction of the controller fails in run(), the process
\* is aborted: the readiness gate is not opened, and no caller's wait on it
\* returns as if a controller existed.
C12_InitFailureAborts ==
    pc = "init_failed" =>
        /\ wait_for_ready # Unlocked
        /\ \A t \in Foreground : fpc[t] # "acquired"

\* C13: the exit command ends the whole process at once: once the worker has
\* executed it, no thread takes a further step, neither the worker's loop
\* nor the event-loop thread.
C13_ExitEndsProcess == [][pc # "exited"]_vars

\* C14: every access to the controller is made by the worker thread.  The
\* controller itself, the snapshot queried from it and the record of the
\* calls made on it change only in steps of run(); no step of a foreground
\* thread (an append, a read of the cache, a callback, a wait) changes them.
C14_ControllerOnlyByWorker ==
    [][(game' # game \/ snapshot' # snapshot \/ effects' # effects)
          => (pc' # pc /\ fpc' = fpc /\ seen_text' = seen_text
              /\ displayed' = displayed /\ enqueued' = enqueued)]_vars

\* The worker has run a setter of the controller for a command, and the
\* event-loop thread has since read the status line built from it.
C14_Witness ==
    /\ game # NoGame
    /\ game.electromagnet_enabled
    /\ "ON" \in {seen_text[i] : i \in 1..Len(seen_text)}

\* C15: the worker invokes no output primitive itself: every text output and
\* every image display that execute_command makes is among the callbacks it
\* hands to call_soon_threadsafe, to be run by the event-loop thread.
C15_OutputOnlyPosted ==
    \A i \in 1..Len(effects) :
        effects[i][1] \in {"print", "show_image"} =>
            \E j \in 1..Len(posted(effects)) : posted(effects)[j] = effects[i]

\* C16: what camshow does on a failure, read off the effects of the latest
\* execute_command call.  If get_image raised: nothing is shown, the
\* detector is not called, and the command ends with the report of the
\* failure.  If the image was fetched and the detection raised (in
\* detect_piece_positions or in generate_board): the raw image is posted for
\* display, as the last image and before the report of the failure, and the
\* command ends with that report.  In neither case is the board printed.
C16_CamshowFailures ==
    LET Pos(e) == IndexOf(effects, e, 1)
        raw == ShowImage("raw", "Failed to Detect Piece Positions:")
        loadReport == print_to_dashboard(<<"Failed to load image:", "err">>)
        detectReport ==
            print_to_dashboard(<<"Failed to detect piece positions:", "err">>)
        boardPrinted ==
            Pos(print_to_dashboard(<<"Board (computer perspective):">>)) > 0
        shown == posted(effects)
    IN  /\ Pos(Call("get_image", "raise")) > 0 =>
              /\ shown = <<>>
              /\ \A o \in DetectOutcomes :
                     Pos(Call("detect_piece_positions", o)) = 0
              /\ effects[Len(effects)] = loadReport
              /\ ~boardPrinted
        /\ (\/ Pos(Call("detect_piece_positions", "raise")) > 0
            \/ Pos(Call("generate_board", "raise")) > 0) =>
              /\ Pos(Call("get_image", "ok")) > 0
              /\ Pos(raw) > 0
              /\ shown[Len(shown)] = raw
              /\ Pos(raw) < Pos(detectReport)
              /\ effects[Len(effects)] = detectReport
              /\ ~boardPrinted

\* The detection failed after the annotated image had been posted, and the
\* event-loop thread has displayed the raw image posted after it.
C16_Witness ==
    /\ IndexOf(effects, Call("generate_board", "raise"), 1) > 0
    /\ Len(displayed) >= 2
    /\ displayed[Len(displayed)] =
           ShowImage("raw", "Failed to Detect Piece Positions:")

\* Whether the argument of a move, bled or leds command fails validation: it
\* is there, and it names no square, no button, no palette.
InvalidArgument(c) ==
    LET toks == split_command(c)
        cmd  == Head(toks)
        args == Tail(toks)
    IN  \/ /\ cmd = "move"
           /\ Len(args) >= 1
           /\ args[1] \notin {SQUARE_NAMES[i] : i \in 1..Len(SQUARE_NAMES)}
        \/ /\ cmd = "bled"
           /\ Len(args) >= 2
           /\ upper(args[1]) \notin ButtonNames
        \/ /\ cmd = "leds"
           /\ Len(args) >= 1
           /\ upper(args[1]) \notin LEDPalleteNames

\* C17: a command whose argument fails validation invokes no setter of the
\* controller, and the controller after the command is the controller before.
C17_InvalidArgumentNoSetter ==
    [][(pc = "execute" /\ InvalidArgument(command)) =>
          /\ game' = game
          /\ \A i \in 1..Len(effects') : effects'[i][1] # "call"]_vars

\* A command with an invalid square name has been executed on a controller
\* whose gantry stood on a square.
C17_Witness ==
    /\ executed = << <<"move", "zz">> >>
    /\ InvalidArgument(executed[1])
    /\ game.gantry_pos = "a1"

\* The worker is in the drain of an iteration: at the while test, at the
\* popleft or in execute_command.
Draining == pc \in {"drain", "popleft", "execute"}

\* C18: an iteration of the worker's loop recomputes and publishes if the
\* cache is stale, then polls the hardware exactly once, then drains the
\* queue; it makes no more than one hardware poll.
C18_OnePollPerIteration ==
    /\ polls <= 1
    /\ Draining => polls = 1

\* C18, amended: an iteration recomputes and publishes if the cache is
\* stale, a recomputation beginning with a hardware poll of its own; then
\* the loop polls exactly once, after the publication and right before the
\* drain; the drain polls nothing.  An iteration thus makes one poll when
\* the cache was not stale and two when it was.
C18_PollsPerIteration ==
    /\ [](/\ pc \in {"start", "construct", "sync", "release", "check",
                     "make_statusline", "init_failed"} => polls = 0
          /\ pc \in {"build", "store_color", "store_text"} => polls = 1
          /\ pc = "update" => polls \in {0, 1}
          /\ Draining => polls \in {1, 2})
    /\ [][/\ (pc = "check" /\ pc' # pc) =>
                pc' = (IF status_line_stale THEN "make_statusline"
                       ELSE "update")
          /\ (pc = "make_statusline" /\ pc' # pc) => polls' = polls + 1
          /\ (pc = "store_text" /\ pc' # pc) =>
                (pc' = "update" /\ status_line' = snapshot[2])
          /\ (pc = "update" /\ pc' # pc) =>
                (pc' = "drain" /\ polls' = polls + 1)
          /\ (Draining /\ pc' # "check") => polls' = polls
          /\ (pc \in {"build", "store_color"}) => polls' = polls]_vars

\* An iteration that recomputed the status line is draining a command after
\* its second hardware poll.
C18_Witness == pc = "execute" /\ polls = 2 /\ published # InitialSnapshot

\* C19: after every get_status_line() the worker eventually starts a
\* make_statusline() call that begins after that read, also when the read
\* came while a call was in progress, and every call that has started gets
\* its result published.  Stated for a worker thread that is scheduled and
\* whose start did not fail.
C19_EveryReadRecomputed ==
    /\ (~comp_after_read) ~>
           ((comp_after_read /\ pc = "build") \/ pc = "init_failed")
    /\ (pc = "build") ~> (pc = "update" /\ published = snapshot)

\* The status line was read while a recomputation was in progress, after
\* its poll and before its result was stored.
C19_Witness ==
    /\ pc = "store_text"
    /\ ~comp_after_read
    /\ status_line_color = snapshot[1]

\* C20: the worker never pops from an empty deque.  Whenever it is at the
\* popleft the deque holds a command, whatever was appended meanwhile, so
\* the popleft yields a command and does not raise; and the while loop is
\* left only on a test that found the deque empty.
C20_NeverPopsEmpty ==
    /\ [](pc = "popleft" => Len(commands) >= 1)
    /\ [][(pc = "popleft" /\ pc' # pc) =>
              (pc' = "execute" /\ command' = Head(commands)
               /\ commands' = Tail(commands))]_vars
    /\ [][(pc = "drain" /\ pc' = "check") => commands = <<>>]_vars

\* The worker is at the popleft, and a second command was appended after the
\* while test that let it in.
C20_Witness ==
    /\ pc = "popleft"
    /\ Len(commands) = 2
    /\ executed = <<>>

====
